---- MODULE Spec2Model ----
(***************************************************************************)
(* A model of fuh-rs: the fold-derived list functions (src/lib.rs,         *)
(* src/paper/mod.rs) and the register machine built on a fold              *)
(* (src/virtual_machine/mod.rs).                                           *)
(*                                                                         *)
(* The value type of the machine and the integer element type of the       *)
(* lists is an unsigned integer of Width bits.  Rust's `+` and `*` on such *)
(* a type panic on overflow in a build with overflow checks (the default   *)
(* of a debug build) and wrap modulo 2^Width otherwise (the default of a   *)
(* release build); `overflow_checks` is the build's setting.               *)
(***************************************************************************)
EXTENDS Integers, Sequences, FiniteSets, TLC

VARIABLES
    overflow_checks,  \* the build: TRUE = `+`/`*` panic on overflow, FALSE = wrap
    pc,               \* position of the caller: "call", "fold", "returned", "panic"
    s0,               \* the BasicCPU registers the caller started from
    fetched,          \* the instructions the iterator has yielded so far
    pre,              \* the registers before the last execute
    cpu,              \* the registers of the current BasicCPU value
    Alpha,            \* the element type of the list: "int", "bool" or "cat"
    input,            \* the list handed to the library function
    op,               \* the library function called
    result            \* what the library function gave: [panicked, value]

vars == <<overflow_checks, pc, s0, fetched, pre, cpu, Alpha, input, op, result>>
vmVars == <<s0, fetched, pre, cpu>>
libVars == <<Alpha, input, op, result>>

\* Bits of the integer value type.
Width == 2
\* Longest instruction sequence handed to executes.
MaxProg == 2
\* Longest list handed to a library function.
MaxLen == 3

Modulus == 2 ^ Width
Values == 0 .. (Modulus - 1)

(***************************************************************************)
(* Outcomes: a returned value or a panic.                                  *)
(***************************************************************************)
Ok(v) == [panicked |-> FALSE, value |-> v]
Panic == [panicked |-> TRUE, value |-> 0]
Same(r1, r2) ==
    /\ r1.panicked = r2.panicked
    /\ (~r1.panicked => r1.value = r2.value)

\* T::add for the integer value type.
IntAdd(x, y, checks) ==
    IF x + y >= Modulus
    THEN IF checks THEN Panic ELSE Ok((x + y) % Modulus)
    ELSE Ok(x + y)

\* T::mul for the integer value type.
IntMul(x, y, checks) ==
    IF x * y >= Modulus
    THEN IF checks THEN Panic ELSE Ok((x * y) % Modulus)
    ELSE Ok(x * y)

(***************************************************************************)
(* The register machine.                                                   *)
(***************************************************************************)
BasicRegister == {"A", "B", "C"}

\* impl From<BasicRegister> for usize
usize(from) ==
    CASE from = "A" -> 0
      [] from = "B" -> 1
      [] from = "C" -> 2

\* BasicIsa<T, BasicRegister>
BasicIsa ==
    [tag : {"ADD"}, a : BasicRegister, b : BasicRegister, c : BasicRegister]
    \cup [tag : {"COPY"}, a : BasicRegister, b : BasicRegister]
    \cup [tag : {"SET"}, a : Values, b : BasicRegister]

\* BasicCPU<T>.registers: [T; 3]
Registers == [0 .. 2 -> Values]

\* impl Default for BasicCPU<T>
default == [i \in 0 .. 2 |-> 0]

\* An array literal [x, y, z] as a register file indexed from 0.
Array(t) == [i \in 0 .. 2 |-> t[i + 1]]

\* The explicit initial registers of the tests, and the default.
SeedRegisters == {default, Array(<<1, 2, 0>>), Array(<<1, 0, 0>>)}

\* A COPY with its two registers exchanged.
ExecuteCopyReadsDestination(self, isa) ==
    LET registers == self
    IN  Ok([registers EXCEPT ![usize(isa.a)] = self[usize(isa.b)]])

\* A SET that adds the value to what the register held.
ExecuteSetAccumulates(self, isa) ==
    LET registers == self
    IN  Ok([registers EXCEPT ![usize(isa.b)] = (registers[usize(isa.b)] + isa.a) % Modulus])

\* BasicCPU::execute, the ADD arm.
ExecuteAdd(self, isa, checks) ==
    LET registers == self
        sum == IntAdd(registers[usize(isa.a)], registers[usize(isa.b)], checks)
    IN  IF sum.panicked
        THEN Panic
        ELSE Ok([registers EXCEPT ![usize(isa.c)] = sum.value])

\* BasicCPU::execute, the COPY arm.
ExecuteCopy(self, isa) ==
    LET registers == self
    IN  Ok([registers EXCEPT ![usize(isa.b)] = self[usize(isa.a)]])

\* BasicCPU::execute, the SET arm.
ExecuteSet(self, isa) ==
    LET registers == self
    IN  Ok([registers EXCEPT ![usize(isa.b)] = isa.a])

\* BasicCPU::execute
execute(self, isa, checks) ==
    CASE isa.tag = "ADD" -> ExecuteAdd(self, isa, checks)
      [] isa.tag = "COPY" -> ExecuteCopy(self, isa)
      [] isa.tag = "SET" -> ExecuteSet(self, isa)

LibIdle ==
    /\ Alpha = "int"
    /\ input = <<>>
    /\ op = [fn |-> "none"]
    /\ result = Ok(0)

(***************************************************************************)
(* A caller executes one instruction on a BasicCPU.                        *)
(***************************************************************************)
InitExecute ==
    /\ overflow_checks \in BOOLEAN
    /\ pc = "call"
    /\ s0 \in Registers
    /\ fetched = <<>>
    /\ pre = s0
    /\ cpu = s0
    /\ LibIdle

Execute ==
    /\ pc = "call"
    /\ \E isa \in BasicIsa :
         LET r == execute(cpu, isa, overflow_checks)
         IN  /\ fetched' = Append(fetched, isa)
             /\ pre' = cpu
             /\ cpu' = IF r.panicked THEN cpu ELSE r.value
             /\ pc' = IF r.panicked THEN "panic" ELSE "returned"
    /\ UNCHANGED <<overflow_checks, s0, libVars>>

NextExecute == Execute

SpecExecute == InitExecute /\ [][NextExecute]_vars

(***************************************************************************)
(* A caller hands a BasicCPU and an iterator of instructions to executes:  *)
(* Iterator::fold takes the items one by one, each time replacing the      *)
(* accumulator by cpu.execute(instruction), and returns the accumulator    *)
(* when the iterator is exhausted.                                         *)
(***************************************************************************)
InitExecutes ==
    /\ overflow_checks \in BOOLEAN
    /\ pc = "fold"
    /\ s0 \in SeedRegisters
    /\ fetched = <<>>
    /\ pre = s0
    /\ cpu = s0
    /\ LibIdle

\* A fold that executes the first instruction only and skips the others.
ExecutesStopsAfterFirst ==
    /\ pc = "fold"
    /\ Len(fetched) < MaxProg
    /\ \E isa \in BasicIsa :
         LET r == IF fetched = <<>> THEN execute(cpu, isa, overflow_checks) ELSE Ok(cpu)
         IN  /\ fetched' = Append(fetched, isa)
             /\ pre' = cpu
             /\ cpu' = IF r.panicked THEN cpu ELSE r.value
             /\ pc' = IF r.panicked THEN "panic" ELSE "fold"
    /\ UNCHANGED <<overflow_checks, s0, libVars>>

\* CPU::executes, one turn of the fold: the closure |cpu, instruction| cpu.execute(instruction)
ExecutesNext ==
    /\ pc = "fold"
    /\ Len(fetched) < MaxProg
    /\ \E isa \in BasicIsa :
         LET r == execute(cpu, isa, overflow_checks)
         IN  /\ fetched' = Append(fetched, isa)
             /\ pre' = cpu
             /\ cpu' = IF r.panicked THEN cpu ELSE r.value
             /\ pc' = IF r.panicked THEN "panic" ELSE "fold"
    /\ UNCHANGED <<overflow_checks, s0, libVars>>

\* CPU::executes, the iterator is exhausted: the fold returns the accumulator.
ExecutesReturn ==
    /\ pc = "fold"
    /\ pc' = "returned"
    /\ UNCHANGED <<overflow_checks, vmVars, libVars>>

NextExecutes == ExecutesNext \/ ExecutesReturn

SpecExecutes == InitExecutes /\ [][NextExecutes]_vars

(***************************************************************************)
(* The fold-derived list functions.                                        *)
(*                                                                         *)
(* The functions are generic in the element type Alpha.  Three element     *)
(* types are modelled: "int", the integer value type; "bool"; and "cat", a *)
(* type whose Add concatenates (its values are short strings, its default  *)
(* the empty string), standing for an addition that is not commutative.    *)
(***************************************************************************)
CatValues == {<<>>, <<"x">>, <<"y">>}

Elements(A) ==
    CASE A = "int" -> Values
      [] A = "bool" -> BOOLEAN
      [] A = "cat" -> CatValues

\* Alpha::default()
Default(A) ==
    CASE A = "int" -> 0
      [] A = "bool" -> FALSE
      [] A = "cat" -> <<>>

\* Alpha::add
Add(A, x, y, checks) ==
    IF A = "int" THEN IntAdd(x, y, checks) ELSE Ok(x \o y)

\* The closures handed to fold, each applied to (element, accumulator).
\* A closure is a record: its name and what it captures.
\* sum: |x, acc| x.add(acc)
SumClosure(f, x, acc) == Add(f.Alpha, x, acc, f.checks)

\* product: |x, acc| x.mul(acc)
ProductClosure(f, x, acc) == IntMul(x, acc, f.checks)

\* and: |x, acc| x.bitand(acc)
AndClosure(f, x, acc) == Ok(x /\ acc)

\* or: |x, acc| x.bitor(acc)
OrClosure(f, x, acc) == Ok(x \/ acc)

\* length: |_, acc| 1 + acc
LengthClosure(f, x, acc) == Ok(1 + acc)

\* A reverse closure that pushes to the back.
ReverseClosurePushes(f, x, acc) == Ok(Append(acc, x))

\* reverse: |x, mut acc| { acc.insert(0, x); acc }
ReverseClosure(f, x, acc) == Ok(<<x>> \o acc)

\* The function a caller hands to map or filter; the ones of the examples.
CallMapF(g, x) ==
    CASE g = "is_odd" -> x % 2 = 1
      [] g = "is_even" -> x % 2 = 0

\* map: |x, mut acc| { acc.push(f(x)); acc }
MapClosure(f, x, acc) == Ok(Append(acc, CallMapF(f.g, x)))

\* filter: |x, mut acc| { if f(x) { acc.push(x); } acc }
FilterClosure(f, x, acc) == Ok(IF CallMapF(f.g, x) THEN Append(acc, x) ELSE acc)

\* sumlength: |x, (sum, length)| (sum + x, length + 1)
SumlengthClosure(f, x, acc) ==
    LET sum_x == Add(f.Alpha, acc[1], x, f.checks)
    IN  IF sum_x.panicked THEN Panic ELSE Ok(<<sum_x.value, acc[2] + 1>>)

\* f(x, acc) for a closure f
Apply(f, x, acc) ==
    CASE f.name = "sum" -> SumClosure(f, x, acc)
      [] f.name = "product" -> ProductClosure(f, x, acc)
      [] f.name = "and" -> AndClosure(f, x, acc)
      [] f.name = "or" -> OrClosure(f, x, acc)
      [] f.name = "length" -> LengthClosure(f, x, acc)
      [] f.name = "reverse" -> ReverseClosure(f, x, acc)
      [] f.name = "map" -> MapClosure(f, x, acc)
      [] f.name = "filter" -> FilterClosure(f, x, acc)
      [] f.name = "sumlength" -> SumlengthClosure(f, x, acc)

Closure(name, A, checks) == [name |-> name, Alpha |-> A, checks |-> checks]
ClosureOver(name, A, checks, g) == [name |-> name, Alpha |-> A, checks |-> checks, g |-> g]

\* A fold that takes the elements from the last to the first.
RECURSIVE FoldFromTheRight(_, _, _)
FoldFromTheRight(f, acc, iter) ==
    IF iter = <<>>
    THEN Ok(acc)
    ELSE LET next == Apply(f, iter[Len(iter)], acc)
         IN  IF next.panicked
             THEN Panic
             ELSE FoldFromTheRight(f, next.value, SubSeq(iter, 1, Len(iter) - 1))

\* fold: let mut acc = acc; for x in iter { acc = f(x, acc); } acc
RECURSIVE fold(_, _, _)
fold(f, acc, iter) ==
    IF iter = <<>>
    THEN Ok(acc)
    ELSE LET next == Apply(f, Head(iter), acc)
         IN  IF next.panicked THEN Panic ELSE fold(f, next.value, Tail(iter))

sum(A, iter, checks) == fold(Closure("sum", A, checks), Default(A), iter)

product(A, iter, checks) == fold(Closure("product", A, checks), Default(A), iter)

\* An and seeded with false.
AndSeededFalse(iter) == fold(Closure("and", "bool", FALSE), FALSE, iter)

and(iter) == fold(Closure("and", "bool", FALSE), TRUE, iter)

or(iter) == fold(Closure("or", "bool", FALSE), FALSE, iter)

length(A, iter) == fold(Closure("length", A, FALSE), 0, iter)

reverse(A, iter) == fold(Closure("reverse", A, FALSE), <<>>, iter)

map(g, A, iter) == fold(ClosureOver("map", A, FALSE, g), <<>>, iter)

filter(g, A, iter) == fold(ClosureOver("filter", A, FALSE, g), <<>>, iter)

sumlength(A, iter, checks) ==
    fold(Closure("sumlength", A, checks), <<Default(A), 0>>, iter)

(***************************************************************************)
(* A caller hands a list to one of the library functions.                  *)
(***************************************************************************)
Lists(A) == UNION {[1 .. n -> Elements(A)] : n \in 0 .. MaxLen}

\* The closures and seeds of a direct call of fold on a list of integers.
FoldCalls ==
    [f : {Closure("sum", "int", c) : c \in BOOLEAN}, seed : {0, 1}]
    \cup [f : {Closure("product", "int", c) : c \in BOOLEAN}, seed : {0, 1}]
    \cup [f : {Closure("length", "int", FALSE)}, seed : {0, 2}]
    \cup [f : {Closure("reverse", "int", FALSE)}, seed : {<<>>, <<0>>}]
    \cup [f : {ClosureOver("map", "int", FALSE, "is_odd")}, seed : {<<>>, <<TRUE>>}]
    \cup [f : {ClosureOver("filter", "int", FALSE, "is_even")}, seed : {<<>>, <<1>>}]
    \cup [f : {Closure("sumlength", "int", c) : c \in BOOLEAN}, seed : {<<0, 0>>, <<1, 2>>}]

VmIdle ==
    /\ s0 = default
    /\ fetched = <<>>
    /\ pre = default
    /\ cpu = default

InitLib ==
    /\ overflow_checks \in BOOLEAN
    /\ pc = "call"
    /\ Alpha \in {"int", "bool", "cat"}
    /\ input \in Lists(Alpha)
    /\ op = [fn |-> "none"]
    /\ result = Ok(0)
    /\ VmIdle

Returns(fn, r) ==
    /\ pc = "call"
    /\ op' = fn
    /\ result' = r
    /\ pc' = IF r.panicked THEN "panic" ELSE "returned"
    /\ UNCHANGED <<overflow_checks, Alpha, input, vmVars>>

CallFold ==
    /\ Alpha = "int"
    /\ \E call \in FoldCalls :
         /\ call.f.checks = (overflow_checks /\ call.f.name \in {"sum", "product", "sumlength"})
         /\ Returns([fn |-> "fold", f |-> call.f, seed |-> call.seed],
                    fold(call.f, call.seed, input))

CallSum ==
    /\ Alpha \in {"int", "cat"}
    /\ Returns([fn |-> "sum"], sum(Alpha, input, overflow_checks))

CallProduct ==
    /\ Alpha = "int"
    /\ Returns([fn |-> "product"], product(Alpha, input, overflow_checks))

CallAnd ==
    /\ Alpha = "bool"
    /\ Returns([fn |-> "and"], and(input))

CallOr ==
    /\ Alpha = "bool"
    /\ Returns([fn |-> "or"], or(input))

CallLength ==
    /\ Alpha \in {"int", "bool", "cat"}
    /\ Returns([fn |-> "length"], length(Alpha, input))

CallReverse ==
    /\ Alpha \in {"int", "bool", "cat"}
    /\ Returns([fn |-> "reverse"], reverse(Alpha, input))

CallMap ==
    /\ Alpha = "int"
    /\ \E g \in {"is_odd", "is_even"} : Returns([fn |-> "map", g |-> g], map(g, Alpha, input))

CallFilter ==
    /\ Alpha = "int"
    /\ \E g \in {"is_odd", "is_even"} :
         Returns([fn |-> "filter", g |-> g], filter(g, Alpha, input))

CallSumlength ==
    /\ Alpha \in {"int", "cat"}
    /\ Returns([fn |-> "sumlength"], sumlength(Alpha, input, overflow_checks))

NextLib ==
    \/ CallFold
    \/ CallSum
    \/ CallProduct
    \/ CallAnd
    \/ CallOr
    \/ CallLength
    \/ CallReverse
    \/ CallMap
    \/ CallFilter
    \/ CallSumlength

SpecLib == InitLib /\ [][NextLib]_vars

(***************************************************************************)
(* Properties of the register machine.                                     *)
(***************************************************************************)
Front(p) == SubSeq(p, 1, Len(p) - 1)
Last(p) == p[Len(p)]

\* execute(...execute(execute(s, i1), i2)..., in): one call of execute per
\* instruction of p, in sequence order, starting from s.
RECURSIVE ExecuteEach(_, _, _)
ExecuteEach(s, p, checks) ==
    IF p = <<>>
    THEN Ok(s)
    ELSE LET r == ExecuteEach(s, Front(p), checks)
         IN  IF r.panicked THEN Panic ELSE execute(r.value, Last(p), checks)

\* The slots of pre and cpu other than slot i are equal.
OtherSlotsKept(i) == \A j \in (0 .. 2) \ {i} : cpu[j] = pre[j]

\* C1: executes(s, p) gives what one call of execute per instruction of p, in
\* order and starting from s, gives (a panic where those calls panic); over
\* the empty sequence it returns s unchanged.
C1_ExecutesIsExecuteEach ==
    /\ pc = "returned" => Same(Ok(cpu), ExecuteEach(s0, fetched, overflow_checks))
    /\ pc = "panic" => ExecuteEach(s0, fetched, overflow_checks).panicked
    /\ (pc = "returned" /\ fetched = <<>>) => cpu = s0

\* executes has returned from two instructions whose order matters.
C1_Witness ==
    /\ pc = "returned"
    /\ Len(fetched) = 2
    /\ LET swapped == ExecuteEach(s0, <<fetched[2], fetched[1]>>, overflow_checks)
       IN  ~swapped.panicked /\ swapped.value # cpu

\* C2: for every state s, execute(s, ADD(a, b, c)) yields a state whose slot c
\* holds s[a] + s[b] (the sum of the value type), read before the instruction,
\* and whose other slots are those of s.
C2_AddYieldsSum ==
    (fetched # <<>> /\ Last(fetched).tag = "ADD") =>
        LET isa == Last(fetched)
        IN  /\ pc = "returned"
            /\ cpu[usize(isa.c)] = (pre[usize(isa.a)] + pre[usize(isa.b)]) % Modulus
            /\ OtherSlotsKept(usize(isa.c))

\* Where ADD returns, slot c holds the sum of the value type (wrapped in a build
\* without overflow checks) of the two slots read before the instruction.
AddWhenReturned ==
    (pc = "returned" /\ fetched # <<>> /\ Last(fetched).tag = "ADD") =>
        LET isa == Last(fetched)
        IN  /\ cpu[usize(isa.c)] = (pre[usize(isa.a)] + pre[usize(isa.b)]) % Modulus
            /\ OtherSlotsKept(usize(isa.c))

\* C3: execute(s, COPY(a, b)) yields a state whose slot b holds s[a] and whose
\* every other slot, slot a included, equals that of s.
C3_CopyFrame ==
    (fetched # <<>> /\ Last(fetched).tag = "COPY") =>
        LET isa == Last(fetched)
        IN  /\ pc = "returned"
            /\ cpu[usize(isa.b)] = pre[usize(isa.a)]
            /\ OtherSlotsKept(usize(isa.b))

\* COPY between two different registers that held different values.
C3_Witness ==
    /\ pc = "returned"
    /\ fetched # <<>>
    /\ Last(fetched).tag = "COPY"
    /\ Last(fetched).a # Last(fetched).b
    /\ pre[usize(Last(fetched).a)] # pre[usize(Last(fetched).b)]

\* C4: execute(s, SET(v, a)) yields a state whose slot a holds v, whatever it
\* held before, and whose two other slots equal those of s.
C4_SetFrame ==
    (fetched # <<>> /\ Last(fetched).tag = "SET") =>
        LET isa == Last(fetched)
        IN  /\ pc = "returned"
            /\ cpu[usize(isa.b)] = isa.a
            /\ OtherSlotsKept(usize(isa.b))

\* SET of a value to a register that held another, non-zero value.
C4_Witness ==
    /\ pc = "returned"
    /\ fetched # <<>>
    /\ Last(fetched).tag = "SET"
    /\ pre[usize(Last(fetched).b)] # 0
    /\ pre[usize(Last(fetched).b)] # Last(fetched).a

\* C5: execute is total: it returns a state for every state and instruction,
\* also when the two source values of an ADD sum to a value out of range.
C5_ExecuteTotal == pc # "panic"

(***************************************************************************)
(* Properties of the list functions.                                       *)
(***************************************************************************)
\* f(xn, ... f(x2, f(x1, z)) ...): f applied once per element of s, the
\* innermost application to the first element and the seed.
RECURSIVE Nested(_, _, _)
Nested(f, z, s) ==
    IF s = <<>>
    THEN Ok(z)
    ELSE LET inner == Nested(f, z, Front(s))
         IN  IF inner.panicked THEN Panic ELSE Apply(f, Last(s), inner.value)

\* C6: fold(f, z, s) equals f(xn, ... f(x2, f(x1, z)) ...), f applied once per
\* element, left to right, to the accumulator of the previous step; for the
\* empty sequence the result is z unchanged.
C6_FoldIsNested ==
    op.fn = "fold" =>
        /\ Same(result, Nested(op.f, op.seed, input))
        /\ input = <<>> => Same(result, Ok(op.seed))

\* fold has returned from a list of two or more elements with a closure
\* whose result depends on the order of the applications.
C6_Witness ==
    /\ op.fn = "fold"
    /\ pc = "returned"
    /\ op.f.name = "reverse"
    /\ op.seed # <<>>
    /\ Len(input) >= 2
    /\ input[1] # input[Len(input)]

\* The product of the elements of s in the value type.
RECURSIVE ProductOfElements(_, _)
ProductOfElements(s, checks) ==
    IF s = <<>>
    THEN Ok(1)
    ELSE LET rest == ProductOfElements(Front(s), checks)
         IN  IF rest.panicked THEN Panic ELSE IntMul(rest.value, Last(s), checks)

\* C7: product(s) returns the product of the elements of s.
C7_ProductIsProduct ==
    op.fn = "product" => Same(result, ProductOfElements(input, overflow_checks))

\* (sum(s), length(s)) from the two separate traversals.
SumAndLength(A, s, checks) ==
    LET total == sum(A, s, checks)
    IN  IF total.panicked THEN Panic ELSE Ok(<<total.value, length(A, s).value>>)

\* C8: for every element type with an addition and a default value,
\* sumlength(s) equals the pair (sum(s), length(s)).
C8_SumlengthIsSumAndLength ==
    op.fn = "sumlength" => Same(result, SumAndLength(Alpha, input, overflow_checks))

\* For the integer element type, whose addition is commutative, sumlength(s)
\* equals the pair (sum(s), length(s)).
SumlengthOfIntegers ==
    (op.fn = "sumlength" /\ Alpha = "int") =>
        Same(result, SumAndLength(Alpha, input, overflow_checks))

\* C9: reverse(s) holds the elements of s in the opposite order, and
\* reverse(reverse(s)) equals s.
C9_ReverseInvolution ==
    op.fn = "reverse" =>
        /\ ~result.panicked
        /\ Len(result.value) = Len(input)
        /\ \A i \in 1 .. Len(input) : result.value[i] = input[Len(input) + 1 - i]
        /\ Same(reverse(Alpha, result.value), Ok(input))

\* reverse has returned from a list that is not its own reverse.
C9_Witness ==
    /\ op.fn = "reverse"
    /\ pc = "returned"
    /\ Len(input) >= 2
    /\ result.value # input

\* C10: and(s) is true exactly when every element of s is true, or(s) exactly
\* when at least one is; and of the empty list is true, or of it false.
C10_AndOr ==
    /\ op.fn = "and" =>
         /\ Same(result, Ok(\A i \in 1 .. Len(input) : input[i]))
         /\ input = <<>> => Same(result, Ok(TRUE))
    /\ op.fn = "or" =>
         /\ Same(result, Ok(\E i \in 1 .. Len(input) : input[i]))
         /\ input = <<>> => Same(result, Ok(FALSE))

\* and has returned from a list whose last element is true and an earlier one false.
C10_Witness ==
    /\ op.fn = "and"
    /\ pc = "returned"
    /\ Len(input) >= 2
    /\ input[Len(input)]
    /\ ~input[1]
    /\ result.value = FALSE

====
